---- MODULE Spec2Model ----
(***************************************************************************)
(* State-machine model of the two thread pools of the repository:          *)
(*   ver = 1 : ThreadPool1.0/ThreadPool.{h,cpp}  (Task / Result / Any)     *)
(*   ver = 2 : ThreaadPool2.0/ThreadPool.hpp     (packaged_task / future)  *)
(* Every critical section on the queue mutex is one action; a thread that  *)
(* leaves a condition-variable wait (notified or timed out) re-acquires    *)
(* the mutex in a later action.  Statements outside the mutex that touch   *)
(* atomics (isRunning_ = false, idleThreadNum_++) are actions of their own.*)
(* Where a critical section updates curThreadNum_ and idleThreadNum_ one   *)
(* after the other (growth, culling) the state in between is a state of    *)
(* the model, with the mutex still held.                                   *)
(***************************************************************************)
EXTENDS Integers, Sequences, FiniteSets, TLC

\* ---------------------------------------------------------------- bounds
MaxInit == 1
MaxThreadSize == 2
MaxQueue == 2
MaxTasks == 2
NumProducers == 2
TickSeconds == 60
MaxPriorIds == 1

\* ------------------------------------------------------- program constants
THREAD_MAX_IDLE_TIME == 60

Producers == 1..NumProducers
Tasks == 1..MaxTasks
\* identities a run can hand out: Thread objects made before the pool took
\* the first ones, start() takes initThreadSize_, every accepted submission
\* creates at most one more Thread object
Ids == 0..(MaxPriorIds + MaxInit + MaxTasks - 1)

MODE_FIXED == "MODE_FIXED"
MODE_CACHED == "MODE_CACHED"

VARIABLES
    ver,                    \* which of the two pools is modelled
    numClients,             \* how many threads of the program call submitTask
    poolMode_,              \* PoolMode
    initThreadSize_,        \* int
    threadSizeThreshHold_,  \* int (maxThreadSize_ in 2.0)
    taskQueMaxThreshHold_,  \* int (taskMaxSize_ in 2.0)
    isPoolRunning_,         \* atomic_bool (isRunning_ in 2.0)
    threadMap_,             \* keys of unordered_map<int, unique_ptr<Thread>>
    generateId_,            \* Thread::generateId_ (static)
    curThreadNum_,          \* atomic_int (currentThreadNum_ in 2.0)
    idleThreadNum_,         \* atomic_int
    taskQue_,               \* std::queue of tasks
    taskNum_,               \* atomic_int (taskSize_ in 2.0)
    phase,                  \* owner thread: constructed / starting / launched / started
    startIdx,               \* loop index of the second loop of start()
    dtor,                   \* ~ThreadPool: none / lock / wait / woken / returned
    wpc,                    \* per worker thread: position in threadFunc
    wtask,                  \* per worker thread: local variable task
    dur,                    \* per worker thread: now - lastTime, saturated
    ppc,                    \* per submitter thread: position in submitTask
    ptask,                  \* per submitter thread: task being submitted / read
    ret,                    \* per submitter thread: what get() returned to it
    throws,                 \* per task: does its callable raise
    hkind,                  \* per task: none / accepted / rejected handle
    posted,                 \* per task: sem_.resLimit_ (1.0) / future ready (2.0)
    cell,                   \* per task: any_ (1.0) / shared state (2.0)
    hlife,                  \* per task: the submitter's Result / future object:
                            \*   none / live / destroyed / clobbered (written when destroyed)
    nextTask,              \* number of submitTask calls made so far
    acceptLog,              \* tasks in the order they were enqueued
    deqLog,                 \* tasks in the order they were dequeued
    shutQueued,             \* were tasks still queued when ~ThreadPool was entered
    crashed                 \* none / terminate (escaped exception) / freed (use of the
                            \*   destroyed pool) / dangling (use of a destroyed Result)
                            \*   / nullstart (start() through a null Thread pointer)

cfgVars == <<ver, numClients, poolMode_, initThreadSize_, threadSizeThreshHold_,
             taskQueMaxThreshHold_>>
poolVars == <<isPoolRunning_, threadMap_, generateId_, curThreadNum_, idleThreadNum_,
              taskQue_, taskNum_>>
lifeVars == <<phase, startIdx, dtor>>
workerVars == <<wpc, wtask, dur>>
prodVars == <<ppc, ptask, ret, nextTask>>
handleVars == <<throws, hkind, posted, cell, hlife>>
logVars == <<acceptLog, deqLog, shutQueued>>
vars == <<cfgVars, poolVars, lifeVars, workerVars, prodVars, handleVars, logVars, crashed>>

\* ------------------------------------------------------------- values
\* what an Any / a future can carry
NoValue == <<"none", 0>>          \* default-constructed Any, unset shared state
EmptyString == <<"str", 0>>       \* Any("") returned by Result::get
DefaultValue == <<"int", 0>>      \* RType() of the rejected submission
Exception == <<"exception", 0>>   \* exception stored in the shared state

\* the callable of task t applied to its argument
run(t) == <<"int", 100 + t>>

Min(a, b) == IF a < b THEN a ELSE b


\* ------------------------------------------------------------- Init
\* State after the constructor (ThreadPool.cpp:85-88, ThreadPool.hpp:72-75).
\* 1.0 leaves isPoolRunning_ uninitialised; it is written before any read.
\* The constructors store their arguments as they come (no test is made on
\* them); Init draws them from the domain the interface documents.
Constructed ==
    /\ ver \in {1, 2}
    /\ numClients \in 1..NumProducers
    /\ poolMode_ \in {MODE_FIXED, MODE_CACHED}
    /\ isPoolRunning_ \in (IF ver = 1 THEN BOOLEAN ELSE {FALSE})
    /\ threadMap_ = {}
    /\ curThreadNum_ = 0
    /\ idleThreadNum_ = 0
    /\ taskQue_ = <<>>
    /\ taskNum_ = 0
    /\ phase = "constructed"
    /\ startIdx = 0
    /\ dtor = "none"
    /\ wpc = [w \in Ids |-> "none"]
    /\ wtask = [w \in Ids |-> 0]
    /\ dur = [w \in Ids |-> 0]
    /\ ppc = [p \in Producers |-> "idle"]
    /\ ptask = [p \in Producers |-> 0]
    /\ ret = [p \in Producers |-> NoValue]
    /\ throws = [t \in Tasks |-> FALSE]
    /\ hkind = [t \in Tasks |-> "none"]
    /\ posted = [t \in Tasks |-> 0]
    /\ cell = [t \in Tasks |-> NoValue]
    /\ hlife = [t \in Tasks |-> "none"]
    /\ nextTask = 0
    /\ acceptLog = <<>>
    /\ deqLog = <<>>
    /\ shutQueued = FALSE
    /\ crashed = "none"

Init ==
    /\ Constructed
    /\ generateId_ = 0
    /\ initThreadSize_ \in 1..MaxInit
    /\ threadSizeThreshHold_ \in
          IF poolMode_ = MODE_CACHED THEN initThreadSize_..MaxThreadSize ELSE {MaxThreadSize}
    /\ taskQueMaxThreshHold_ \in 1..MaxQueue

\* any arguments the constructors take, 0 standing for the values <= 0
InitAnyArgs ==
    /\ Constructed
    /\ generateId_ = 0
    /\ numClients = 1
    /\ initThreadSize_ \in 0..MaxInit
    /\ threadSizeThreshHold_ \in 0..MaxThreadSize
    /\ taskQueMaxThreshHold_ \in 0..MaxQueue

\* a pool of a process in which Thread objects were made before (by an
\* earlier pool): generateId_ is static and is never reset
InitPriorIds ==
    /\ Constructed
    /\ generateId_ \in 0..MaxPriorIds
    /\ numClients = 1
    /\ initThreadSize_ \in 1..MaxInit
    /\ threadSizeThreshHold_ \in
          IF poolMode_ = MODE_CACHED THEN initThreadSize_..MaxThreadSize ELSE {MaxThreadSize}
    /\ taskQueMaxThreshHold_ \in 1..MaxQueue

\* ------------------------------------------------- condition variables
\* notEmpty_.notify_all() as seen by the workers blocked in wait / wait_for
WakeWorkers(f) == [w \in Ids |-> IF f[w] = "wait" THEN "notified" ELSE f[w]]
\* notify_all() on the condition the submitters are blocked on
WakeProducers(f) == [p \in Producers |-> IF f[p] = "waitfull" THEN "woke" ELSE f[p]]
\* the condition variable submitTask waits on for room
ProducerCond == IF ver = 1 THEN "notEmpty_" ELSE "notFull_"
\* exitCond_.notify_all() as seen by the destructor
WakeDtor(d) == IF d = "wait" THEN "woken" ELSE d

Live(w) == wpc[w] \notin {"none", "exited"}

\* ------------------------------------------------------------- start()
\* isPoolRunning_ = true and the first loop: the Thread objects are created
StartCreate ==
    /\ crashed = "none"
    /\ phase = "constructed"
    /\ dtor = "none"
    /\ isPoolRunning_' = TRUE
    /\ curThreadNum_' = IF ver = 2 THEN initThreadSize_ ELSE curThreadNum_
    /\ threadMap_' = threadMap_ \cup (generateId_..(generateId_ + initThreadSize_ - 1))
    /\ generateId_' = generateId_ + initThreadSize_
    /\ phase' = IF initThreadSize_ > 0 THEN "starting" ELSE "started"
    /\ startIdx' = 0
    /\ UNCHANGED <<cfgVars, idleThreadNum_, taskQue_, taskNum_, dtor, workerVars,
                   prodVars, handleVars, logVars, crashed>>

\* one iteration of the second loop, up to the first counter:
\* threadMap_[i]->start() and, in 1.0, curThreadNum_++
StartLaunch ==
    /\ crashed = "none"
    /\ phase = "starting"
    /\ startIdx < initThreadSize_
    /\ startIdx \in threadMap_
    /\ wpc' = [wpc EXCEPT ![startIdx] = "ready"]
    /\ curThreadNum_' = IF ver = 1 THEN curThreadNum_ + 1 ELSE curThreadNum_
    /\ phase' = "launched"
    /\ UNCHANGED <<cfgVars, isPoolRunning_, threadMap_, generateId_, idleThreadNum_,
                   taskQue_, taskNum_, startIdx, dtor, wtask, dur, prodVars, handleVars,
                   logVars, crashed>>

\* the same statement when the registry has no key i: operator[] inserts the
\* key with a null unique_ptr and ->start() is called through it.  The call is
\* undefined: the process dies there, or the call does nothing and the loop
\* goes on.  (A key of threadMap_ whose thread never ran has wpc = "none".)
StartLaunchMissing ==
    /\ crashed = "none"
    /\ phase = "starting"
    /\ startIdx < initThreadSize_
    /\ startIdx \notin threadMap_
    /\ threadMap_' = threadMap_ \cup {startIdx}
    /\ \/ /\ crashed' = "nullstart"
          /\ UNCHANGED <<curThreadNum_, phase>>
       \/ /\ curThreadNum_' = IF ver = 1 THEN curThreadNum_ + 1 ELSE curThreadNum_
          /\ phase' = "launched"
          /\ UNCHANGED crashed
    /\ UNCHANGED <<cfgVars, isPoolRunning_, generateId_, idleThreadNum_, taskQue_,
                   taskNum_, startIdx, dtor, workerVars, prodVars, handleVars, logVars>>

\* the rest of the iteration: idleThreadNum_++ and i++
StartIdleInc ==
    /\ crashed = "none"
    /\ phase = "launched"
    /\ idleThreadNum_' = idleThreadNum_ + 1
    /\ startIdx' = startIdx + 1
    /\ phase' = IF startIdx + 1 = initThreadSize_ THEN "started" ELSE "starting"
    /\ UNCHANGED <<cfgVars, isPoolRunning_, threadMap_, generateId_, curThreadNum_,
                   taskQue_, taskNum_, dtor, workerVars, prodVars, handleVars, logVars,
                   crashed>>

\* ------------------------------------------------------------- the mutex
\* taskQueMtx_ (taskMtx_ in 2.0) is free: no thread is inside a critical
\* section that the model takes in two steps
LockFree ==
    /\ \A w \in Ids : wpc[w] # "culling"
    /\ \A p \in Producers : ppc[p] # "growing"

\* ------------------------------------------------------------- submitTask
\* notEmpty_.notify_all() / notFull_.notify_all() as seen by blocked submitters:
\* 1.0 waits for room on notEmpty_ (cpp:102), 2.0 on notFull_ (hpp:101)
AfterNotEmpty(f) == IF ProducerCond = "notEmpty_" THEN WakeProducers(f) ELSE f
AfterNotFull(f) == IF ProducerCond = "notFull_" THEN WakeProducers(f) ELSE f

\* mutant of HasRoom: the comparison is off by one
HasRoom_OffByOne == Len(taskQue_) <= taskQueMaxThreshHold_

\* predicate of the wait_for: taskQue_.size() < taskQueMaxThreshHold_
HasRoom == Len(taskQue_) < taskQueMaxThreshHold_

\* mutant of ShouldGrow: the test against the thread ceiling is missing
ShouldGrow_NoCeiling(n) == poolMode_ = MODE_CACHED /\ n > idleThreadNum_

\* mutant of ShouldGrow: the test of the mode is missing
ShouldGrow_AnyMode(n) == curThreadNum_ < threadSizeThreshHold_ /\ n > idleThreadNum_

\* mutant of ShouldGrow: >= instead of > against the idle count
ShouldGrow_AtLeastIdle(n) ==
    /\ poolMode_ = MODE_CACHED
    /\ curThreadNum_ < threadSizeThreshHold_
    /\ n >= idleThreadNum_

\* growth test after the enqueue; n is taskNum_ (1.0) or taskQue_.size() (2.0)
ShouldGrow(n) ==
    /\ poolMode_ = MODE_CACHED
    /\ curThreadNum_ < threadSizeThreshHold_
    /\ n > idleThreadNum_

\* the rest of submitTask once there is room: enqueue, notify, the growth
\* test and, when it holds, the new thread up to curThreadNum_++ (the lock
\* is held until submitTask returns); the Result / future is the caller's
Accept(p, t) ==
    /\ taskQue_' = Append(taskQue_, t)
    /\ taskNum_' = taskNum_ + 1
    /\ acceptLog' = Append(acceptLog, t)
    /\ ptask' = [ptask EXCEPT ![p] = t]
    /\ hkind' = [hkind EXCEPT ![t] = "accepted"]
    /\ hlife' = [hlife EXCEPT ![t] = "live"]
    /\ IF ShouldGrow(IF ver = 1 THEN taskNum_ + 1 ELSE Len(taskQue_) + 1)
          THEN /\ threadMap_' = threadMap_ \cup {generateId_}
               /\ generateId_' = generateId_ + 1
               /\ wpc' = [WakeWorkers(wpc) EXCEPT ![generateId_] = "ready"]
               /\ curThreadNum_' = curThreadNum_ + 1
               /\ ppc' = [AfterNotEmpty(ppc) EXCEPT ![p] = "growing"]
          ELSE /\ wpc' = WakeWorkers(wpc)
               /\ ppc' = [AfterNotEmpty(ppc) EXCEPT ![p] = "hold"]
               /\ UNCHANGED <<threadMap_, generateId_, curThreadNum_>>
    /\ UNCHANGED <<cfgVars, isPoolRunning_, idleThreadNum_, lifeVars, wtask, dur, ret,
                   posted, cell, deqLog, shutQueued, crashed>>

\* idleThreadNum_++ of the growth branch, then submitTask returns
GrowIdleInc(p) ==
    /\ crashed = "none"
    /\ ppc[p] = "growing"
    /\ idleThreadNum_' = idleThreadNum_ + 1
    /\ ppc' = [ppc EXCEPT ![p] = "hold"]
    /\ UNCHANGED <<cfgVars, isPoolRunning_, threadMap_, generateId_, curThreadNum_,
                   taskQue_, taskNum_, lifeVars, workerVars, ptask, ret, nextTask,
                   handleVars, logVars, crashed>>

\* the wait_for returned false: 1.0 returns Result(sp, false), 2.0 returns the
\* future of a fresh packaged_task that was run on the spot with RType()
Reject(p, t) ==
    /\ hkind' = [hkind EXCEPT ![t] = "rejected"]
    /\ cell' = IF ver = 2 THEN [cell EXCEPT ![t] = DefaultValue] ELSE cell
    /\ posted' = IF ver = 2 THEN [posted EXCEPT ![t] = 1] ELSE posted
    /\ hlife' = [hlife EXCEPT ![t] = "live"]
    /\ ppc' = [ppc EXCEPT ![p] = "hold"]
    /\ ptask' = [ptask EXCEPT ![p] = t]
    /\ UNCHANGED <<cfgVars, poolVars, lifeVars, workerVars, ret, logVars, crashed>>

\* a submitter enters submitTask, takes the lock and tests the predicate
SubmitCall(p) ==
    /\ crashed = "none"
    /\ phase = "started"
    /\ dtor = "none"
    /\ p <= numClients
    /\ ppc[p] = "idle"
    /\ nextTask < MaxTasks
    /\ LockFree
    /\ nextTask' = nextTask + 1
    /\ \E th \in BOOLEAN : throws' = [throws EXCEPT ![nextTask + 1] = th]
    /\ IF HasRoom
          THEN /\ Accept(p, nextTask + 1)
          ELSE /\ ppc' = [ppc EXCEPT ![p] = "waitfull"]
               /\ ptask' = [ptask EXCEPT ![p] = nextTask + 1]
               /\ UNCHANGED <<cfgVars, poolVars, lifeVars, workerVars, ret, hkind,
                              posted, cell, hlife, logVars, crashed>>

\* a notified submitter has the lock again and re-tests the predicate
SubmitWoke(p) ==
    /\ crashed = "none"
    /\ ppc[p] = "woke"
    /\ LockFree
    /\ UNCHANGED <<nextTask, throws>>
    /\ IF HasRoom
          THEN Accept(p, ptask[p])
          ELSE /\ ppc' = [ppc EXCEPT ![p] = "waitfull"]
               /\ UNCHANGED <<cfgVars, poolVars, lifeVars, workerVars, ptask, ret, hkind,
                              posted, cell, hlife, logVars, crashed>>

\* the one second of the wait_for is over (the lock is not held yet)
SubmitWaitTimeout(p) ==
    /\ crashed = "none"
    /\ ppc[p] \in {"waitfull", "woke"}
    /\ ppc' = [ppc EXCEPT ![p] = "timedout"]
    /\ UNCHANGED <<cfgVars, poolVars, lifeVars, workerVars, ptask, ret, nextTask,
                   handleVars, logVars, crashed>>

\* after the timeout wait_for returns the predicate's value
SubmitTimedOut(p) ==
    /\ crashed = "none"
    /\ ppc[p] = "timedout"
    /\ LockFree
    /\ UNCHANGED <<nextTask, throws>>
    /\ IF HasRoom THEN Accept(p, ptask[p]) ELSE Reject(p, ptask[p])

\* ------------------------------------------------------------- threadFunc
\* mutant of QueueFront: the newest task is taken instead of the oldest
QueueFront_Back(q) == q[Len(q)]

\* mutant of QueuePop: the task taken stays in the queue
QueuePop_Keep(q) == q

\* taskQue_.front() and taskQue_.pop()
QueueFront(q) == Head(q)
QueuePop(q) == Tail(q)

\* mutant of Dequeue: the worker forgets idleThreadNum_-- before it runs the task
Dequeue_NoIdleDec(w) ==
    /\ wtask' = [wtask EXCEPT ![w] = QueueFront(taskQue_)]
    /\ taskQue_' = QueuePop(taskQue_)
    /\ taskNum_' = taskNum_ - 1
    /\ deqLog' = Append(deqLog, QueueFront(taskQue_))
    /\ wpc' = [(IF Len(QueuePop(taskQue_)) > 0 THEN WakeWorkers(wpc) ELSE wpc)
                  EXCEPT ![w] = "exec"]
    /\ ppc' = AfterNotFull(IF Len(QueuePop(taskQue_)) > 0 THEN AfterNotEmpty(ppc) ELSE ppc)
    /\ dur' = [dur EXCEPT ![w] = 0]
    /\ UNCHANGED <<cfgVars, isPoolRunning_, threadMap_, generateId_, curThreadNum_,
                   idleThreadNum_, lifeVars, ptask, ret, nextTask, handleVars, acceptLog,
                   shutQueued, crashed>>

\* lines 220-238 (1.0) / 221-239 (2.0): take the task at the front
Dequeue(w) ==
    /\ idleThreadNum_' = idleThreadNum_ - 1
    /\ wtask' = [wtask EXCEPT ![w] = QueueFront(taskQue_)]
    /\ taskQue_' = QueuePop(taskQue_)
    /\ taskNum_' = taskNum_ - 1
    /\ deqLog' = Append(deqLog, QueueFront(taskQue_))
    /\ wpc' = [(IF Len(QueuePop(taskQue_)) > 0 THEN WakeWorkers(wpc) ELSE wpc)
                  EXCEPT ![w] = "exec"]
    /\ ppc' = AfterNotFull(IF Len(QueuePop(taskQue_)) > 0 THEN AfterNotEmpty(ppc) ELSE ppc)
    /\ dur' = [dur EXCEPT ![w] = 0]
    /\ UNCHANGED <<cfgVars, isPoolRunning_, threadMap_, generateId_, curThreadNum_,
                   lifeVars, ptask, ret, nextTask, handleVars, acceptLog, shutQueued,
                   crashed>>

\* lines 180-187 (1.0) / 188-195 (2.0): the pool is being destroyed
ExitShutdown(w) ==
    /\ threadMap_' = threadMap_ \ {w}
    /\ dtor' = WakeDtor(dtor)
    /\ wpc' = [wpc EXCEPT ![w] = "exited"]
    /\ dur' = [dur EXCEPT ![w] = 0]
    /\ UNCHANGED <<cfgVars, isPoolRunning_, generateId_, curThreadNum_, idleThreadNum_,
                   taskQue_, taskNum_, phase, startIdx, wtask, prodVars, handleVars,
                   logVars, crashed>>

\* mutant of ShouldCull: one surplus worker is always kept
ShouldCull_KeepOne(w) ==
    dur[w] >= THREAD_MAX_IDLE_TIME /\ curThreadNum_ > initThreadSize_ + 1

\* mutant of ShouldCull: the test against initThreadSize_ is missing
ShouldCull_NoBaseline(w) == dur[w] >= THREAD_MAX_IDLE_TIME

\* test made after a timed-out wait_for
ShouldCull(w) == dur[w] >= THREAD_MAX_IDLE_TIME /\ curThreadNum_ > initThreadSize_

\* lines 199-204 (1.0) / 207-208 (2.0): an idle surplus worker retires:
\* threadMap_.erase(threadid) and curThreadNum_--
Cull(w) ==
    /\ threadMap_' = threadMap_ \ {w}
    /\ curThreadNum_' = curThreadNum_ - 1
    /\ wpc' = [wpc EXCEPT ![w] = "culling"]
    /\ dur' = [dur EXCEPT ![w] = 0]
    /\ UNCHANGED <<cfgVars, isPoolRunning_, generateId_, idleThreadNum_, taskQue_,
                   taskNum_, lifeVars, wtask, prodVars, handleVars, logVars, crashed>>

\* lines 205-209 (1.0) / 209-212 (2.0): idleThreadNum_-- and return, which
\* releases the lock
CullIdleDec(w) ==
    /\ crashed = "none"
    /\ wpc[w] = "culling"
    /\ idleThreadNum_' = idleThreadNum_ - 1
    /\ wpc' = [wpc EXCEPT ![w] = "exited"]
    /\ UNCHANGED <<cfgVars, isPoolRunning_, threadMap_, generateId_, curThreadNum_,
                   taskQue_, taskNum_, lifeVars, wtask, dur, prodVars, handleVars,
                   logVars, crashed>>

\* the while loop from its condition on, with the lock held
Loop(w) ==
    IF Len(taskQue_) # 0
       THEN Dequeue(w)
       ELSE IF ~isPoolRunning_
               THEN ExitShutdown(w)
               ELSE /\ wpc' = [wpc EXCEPT ![w] = "wait"]
                    /\ UNCHANGED <<cfgVars, poolVars, lifeVars, wtask, dur, prodVars,
                                   handleVars, logVars, crashed>>

\* a worker takes the lock at the top of the for loop, or comes back from a
\* wait that returned without a timeout
WorkerAcquire(w) ==
    /\ crashed = "none"
    /\ wpc[w] \in {"ready", "notified"}
    /\ LockFree
    /\ Loop(w)

\* the wait_for of a cached-mode worker runs out (the lock is not held yet);
\* a notified waiter that gets the lock late may report a timeout as well
WaitTimeout(w) ==
    /\ crashed = "none"
    /\ poolMode_ = MODE_CACHED
    /\ wpc[w] \in {"wait", "notified"}
    /\ wpc' = [wpc EXCEPT ![w] = "timedout"]
    /\ UNCHANGED <<cfgVars, poolVars, lifeVars, wtask, dur, prodVars, handleVars,
                   logVars, crashed>>

\* wait_for returned cv_status::timeout and the worker has the lock again
WorkerTimedOut(w) ==
    /\ crashed = "none"
    /\ wpc[w] = "timedout"
    /\ LockFree
    /\ IF ShouldCull(w) THEN Cull(w) ELSE Loop(w)

\* what result_ (1.0, raw Result*) points to is gone; in 2.0 the
\* packaged_task owns its shared state whatever becomes of the future
DanglingResult(t) == ver = 1 /\ hlife[t] = "destroyed"

\* task->exec() (1.0) / task() (2.0), outside the lock
RunTask(w) ==
    /\ crashed = "none"
    /\ wpc[w] = "exec"
    /\ IF ver = 1 /\ throws[wtask[w]]
          THEN \* run() throws out of exec() and threadFunc: std::terminate
               /\ crashed' = "terminate"
               /\ UNCHANGED <<wpc, posted, cell, hlife>>
          ELSE /\ cell' = [cell EXCEPT ![wtask[w]] =
                              IF throws[wtask[w]] THEN Exception ELSE run(wtask[w])]
               /\ posted' = [posted EXCEPT ![wtask[w]] = @ + 1]
               /\ wpc' = [wpc EXCEPT ![w] = "idleinc"]
               /\ IF DanglingResult(wtask[w])
                     THEN \* setVal writes through the dangling result_: the
                          \* write lands in the dead object or the process dies
                          \/ /\ hlife' = [hlife EXCEPT ![wtask[w]] = "clobbered"]
                             /\ UNCHANGED crashed
                          \/ /\ crashed' = "dangling"
                             /\ UNCHANGED hlife
                     ELSE UNCHANGED <<crashed, hlife>>
    /\ UNCHANGED <<cfgVars, poolVars, lifeVars, wtask, dur, prodVars, throws, hkind,
                   logVars>>

\* idleThreadNum_++ and lastTime = now, outside the lock
IdleInc(w) ==
    /\ crashed = "none"
    /\ wpc[w] = "idleinc"
    /\ idleThreadNum_' = idleThreadNum_ + 1
    /\ dur' = [dur EXCEPT ![w] = 0]
    /\ wtask' = [wtask EXCEPT ![w] = 0]
    /\ wpc' = [wpc EXCEPT ![w] = "ready"]
    /\ UNCHANGED <<cfgVars, isPoolRunning_, threadMap_, generateId_, curThreadNum_,
                   taskQue_, taskNum_, lifeVars, prodVars, handleVars, logVars, crashed>>

\* does worker w still read now - lastTime before it overwrites lastTime
\* (only cached-mode workers that are not running a task do)
Timed(w) == poolMode_ = MODE_CACHED /\ wpc[w] \in {"ready", "wait", "notified", "timedout"}

\* TickSeconds of time pass for every thread
Tick ==
    /\ crashed = "none"
    /\ \E w \in Ids : Timed(w) /\ dur[w] < THREAD_MAX_IDLE_TIME
    /\ dur' = [w \in Ids |-> IF Timed(w)
                                THEN Min(dur[w] + TickSeconds, THREAD_MAX_IDLE_TIME)
                                ELSE dur[w]]
    /\ UNCHANGED <<cfgVars, poolVars, lifeVars, wpc, wtask, prodVars, handleVars,
                   logVars, crashed>>

\* ------------------------------------------------------------- Result / future
\* can a caller inside get() leave it now
\* 1.0 (cpp:21-29): isValid_ returns at once, otherwise sem_.wait() needs a post
\* 2.0: future::get() needs the shared state to be ready
CanReturn(t) ==
    IF ver = 1 THEN hkind[t] = "accepted" \/ posted[t] > 0
               ELSE posted[t] > 0

\* the submitter keeps the handle it was given and goes on without reading it
KeepHandle(p) ==
    /\ crashed = "none"
    /\ ppc[p] = "hold"
    /\ ppc' = [ppc EXCEPT ![p] = "idle"]
    /\ ptask' = [ptask EXCEPT ![p] = 0]
    /\ UNCHANGED <<cfgVars, poolVars, lifeVars, workerVars, ret, nextTask, handleVars,
                   logVars, crashed>>

\* the submitter lets the handle it was given go out of scope unread
\* (submitTask's return value used as a temporary, or a block that ends)
DropHandle(p) ==
    /\ crashed = "none"
    /\ ppc[p] = "hold"
    /\ ppc' = [ppc EXCEPT ![p] = "idle"]
    /\ ptask' = [ptask EXCEPT ![p] = 0]
    /\ hlife' = [hlife EXCEPT ![ptask[p]] = "destroyed"]
    /\ UNCHANGED <<cfgVars, poolVars, lifeVars, workerVars, ret, nextTask, throws, hkind,
                   posted, cell, logVars, crashed>>

\* the submitter calls get() on the handle it was given
GetCall(p) ==
    /\ crashed = "none"
    /\ ppc[p] = "hold"
    /\ ppc' = [ppc EXCEPT ![p] = "get"]
    /\ UNCHANGED <<cfgVars, poolVars, lifeVars, workerVars, ptask, ret, nextTask,
                   handleVars, logVars, crashed>>

\* the value get() returns (an exception stored in a future is rethrown)
GetValue(t) ==
    IF ver = 1 /\ hkind[t] = "accepted" THEN EmptyString ELSE cell[t]

\* get() returns to its caller
GetReturn(p) ==
    /\ crashed = "none"
    /\ ppc[p] = "get"
    /\ CanReturn(ptask[p])
    /\ ret' = [ret EXCEPT ![p] = GetValue(ptask[p])]
    /\ ppc' = [ppc EXCEPT ![p] = "gotval"]
    /\ IF ver = 1 /\ hkind[ptask[p]] # "accepted"
          THEN /\ posted' = [posted EXCEPT ![ptask[p]] = @ - 1]
               /\ cell' = [cell EXCEPT ![ptask[p]] = NoValue]
          ELSE UNCHANGED <<posted, cell>>
    /\ UNCHANGED <<cfgVars, poolVars, lifeVars, workerVars, ptask, nextTask, throws,
                   hkind, hlife, logVars, crashed>>

\* the caller is done with the value and the handle
GetDone(p) ==
    /\ crashed = "none"
    /\ ppc[p] = "gotval"
    /\ ppc' = [ppc EXCEPT ![p] = "idle"]
    /\ ptask' = [ptask EXCEPT ![p] = 0]
    /\ ret' = [ret EXCEPT ![p] = NoValue]
    /\ UNCHANGED <<cfgVars, poolVars, lifeVars, workerVars, nextTask, handleVars,
                   logVars, crashed>>

\* ------------------------------------------------------------- ~ThreadPool
\* predicate of exitCond_.wait: threadMap_.size() == 0 in 1.0 (cpp:95-96),
\* taskQue_.size() == 0 in 2.0 (hpp:84-85)
ExitPredicate == IF ver = 1 THEN threadMap_ = {} ELSE Len(taskQue_) = 0

\* isPoolRunning_ = false, before the lock is taken
DtorBegin ==
    /\ crashed = "none"
    /\ dtor = "none"
    /\ phase \in {"constructed", "started"}
    /\ \A p \in Producers : ppc[p] \notin {"waitfull", "woke", "timedout", "growing"}
    /\ isPoolRunning_' = FALSE
    /\ dtor' = "lock"
    /\ shutQueued' = (Len(taskQue_) > 0)
    /\ UNCHANGED <<cfgVars, threadMap_, generateId_, curThreadNum_, idleThreadNum_,
                   taskQue_, taskNum_, phase, startIdx, workerVars, prodVars,
                   handleVars, acceptLog, deqLog, crashed>>

\* lock, notEmpty_.notify_all(), first test of the exitCond_ predicate
DtorLock ==
    /\ crashed = "none"
    /\ dtor = "lock"
    /\ LockFree
    /\ wpc' = WakeWorkers(wpc)
    /\ ppc' = AfterNotEmpty(ppc)
    /\ dtor' = IF ExitPredicate THEN "returned" ELSE "wait"
    /\ UNCHANGED <<cfgVars, poolVars, phase, startIdx, wtask, dur, ptask, ret, nextTask,
                   handleVars, logVars, crashed>>

\* woken on exitCond_, the destructor has the lock again and re-tests
DtorWoken ==
    /\ crashed = "none"
    /\ dtor = "woken"
    /\ LockFree
    /\ dtor' = IF ExitPredicate THEN "returned" ELSE "wait"
    /\ UNCHANGED <<cfgVars, poolVars, phase, startIdx, workerVars, prodVars,
                   handleVars, logVars, crashed>>

\* a condition-variable wait may return without a notification
SpuriousWake ==
    /\ crashed = "none"
    /\ \/ /\ \E w \in Ids : wpc[w] = "wait" /\ wpc' = [wpc EXCEPT ![w] = "notified"]
          /\ UNCHANGED <<ppc, dtor>>
       \/ /\ \E p \in Producers : ppc[p] = "waitfull" /\ ppc' = [ppc EXCEPT ![p] = "woke"]
          /\ UNCHANGED <<wpc, dtor>>
       \/ /\ dtor = "wait"
          /\ dtor' = "woken"
          /\ UNCHANGED <<wpc, ppc>>
    /\ UNCHANGED <<cfgVars, poolVars, phase, startIdx, wtask, dur, ptask, ret, nextTask,
                   handleVars, logVars, crashed>>

\* a thread still inside threadFunc touches the members of a pool whose
\* destructor has returned: the access may go through (the other actions)
\* or bring the process down
UseAfterFree(w) ==
    /\ crashed = "none"
    /\ dtor = "returned"
    /\ wpc[w] \in {"ready", "wait", "notified", "timedout", "culling", "idleinc"}
    /\ crashed' = "freed"
    /\ UNCHANGED <<cfgVars, poolVars, lifeVars, workerVars, prodVars, handleVars, logVars>>

\* ------------------------------------------------------------- specification
Next ==
    \/ StartCreate
    \/ StartLaunch
    \/ StartIdleInc
    \/ \E p \in Producers : SubmitCall(p)
    \/ \E p \in Producers : SubmitWoke(p)
    \/ \E p \in Producers : SubmitWaitTimeout(p)
    \/ \E p \in Producers : SubmitTimedOut(p)
    \/ \E p \in Producers : GrowIdleInc(p)
    \/ \E w \in Ids : WorkerAcquire(w)
    \/ \E w \in Ids : WaitTimeout(w)
    \/ \E w \in Ids : WorkerTimedOut(w)
    \/ \E w \in Ids : CullIdleDec(w)
    \/ \E w \in Ids : RunTask(w)
    \/ \E w \in Ids : IdleInc(w)
    \/ \E p \in Producers : KeepHandle(p)
    \/ \E p \in Producers : DropHandle(p)
    \/ \E p \in Producers : GetCall(p)
    \/ \E p \in Producers : GetReturn(p)
    \/ \E p \in Producers : GetDone(p)
    \/ Tick
    \/ DtorBegin
    \/ DtorLock
    \/ DtorWoken
    \/ SpuriousWake
    \/ \E w \in Ids : UseAfterFree(w)

Spec == Init /\ [][Next]_vars

\* Scheduling: a thread that can take its next step is eventually given the
\* processor, a task that was started returns, time goes on, and a timed
\* wait that is not left otherwise runs out.  Nothing forces the program's
\* clients to call start, submitTask, get or the destructor, and nothing
\* forces a wait to return without a notification.
Fairness ==
    /\ WF_vars(StartLaunch)
    /\ WF_vars(StartIdleInc)
    /\ WF_vars(Tick)
    /\ WF_vars(DtorLock)
    /\ WF_vars(DtorWoken)
    /\ \A p \in Producers :
          /\ WF_vars(SubmitWoke(p))
          /\ WF_vars(SubmitWaitTimeout(p))
          /\ WF_vars(SubmitTimedOut(p))
          /\ WF_vars(GrowIdleInc(p))
          /\ WF_vars(GetReturn(p))
    /\ \A w \in Ids :
          /\ WF_vars(WorkerAcquire(w))
          /\ WF_vars(WaitTimeout(w))
          /\ WF_vars(WorkerTimedOut(w))
          /\ WF_vars(CullIdleDec(w))
          /\ WF_vars(RunTask(w))
          /\ WF_vars(IdleInc(w))

\* the liveness claims are about the worker side of the pool: one client
\* thread, every other parameter as in Init
LiveInit == Init /\ numClients = 1

FairSpec == LiveInit /\ [][Next]_vars /\ Fairness

\* the pool whatever the arguments of its constructor
SpecAnyArgs == InitAnyArgs /\ [][Next]_vars

\* the pool whatever the value of the static identity counter at start()
NextPriorIds ==
    \/ Next
    \/ StartLaunchMissing

SpecPriorIds == InitPriorIds /\ [][NextPriorIds]_vars

\* ------------------------------------------------------------- vocabulary
Accepted(t) == hkind[t] = "accepted"
Rejected(t) == hkind[t] = "rejected"
Queued(t) == \E i \in 1..Len(taskQue_) : taskQue_[i] = t
Executing(t) == \E w \in Ids : wpc[w] = "exec" /\ wtask[w] = t
\* the task was taken from the queue and its execution has ended
Done(t) == Accepted(t) /\ ~Queued(t) /\ ~Executing(t)
IsPrefix(a, b) == Len(a) <= Len(b) /\ a = SubSeq(b, 1, Len(a))

\* ------------------------------------------------------------- claims

\* C1: when the destructor has returned the registry is empty and no worker
\* thread is still inside threadFunc.
C1_ShutdownLeavesNoWorker ==
    dtor = "returned" => (threadMap_ = {} /\ \A w \in Ids : ~Live(w))

\* C2: get() on the handle of an accepted submission returns only after the
\* worker has posted, and returns the value the callable produced.
C2_GetReturnsPostedValue ==
    \A p \in Producers :
        (ppc[p] = "gotval" /\ Accepted(ptask[p])) =>
            /\ posted[ptask[p]] > 0
            /\ (~throws[ptask[p]] => ret[p] = run(ptask[p]))

\* C3: get() on the handle of a rejected submission never blocks and returns
\* the default value.
C3_RejectedGetDoesNotBlock ==
    \A p \in Producers :
        /\ (ppc[p] = "get" /\ Rejected(ptask[p])) => CanReturn(ptask[p])
        /\ (ppc[p] = "gotval" /\ Rejected(ptask[p])) => ret[p] = DefaultValue

\* C4: once the destructor has been entered it eventually returns (unless the
\* process was brought down by a fault of another kind).
C4_ShutdownCompletes ==
    (dtor # "none") ~> (dtor = "returned" \/ crashed # "none")

\* C5: if the destructor was entered while accepted tasks were still queued,
\* then once it has returned every accepted task has been dequeued and executed
\* to completion and its handle is filled.
C5_NoTaskLostOnShutdown ==
    (dtor = "returned" /\ shutQueued /\ crashed = "none") =>
        \A t \in Tasks : Accepted(t) => (Done(t) /\ posted[t] > 0)

\* C6: the queue never holds more than taskQueMaxThreshHold_ tasks, a rejected
\* task is never inserted, and capacity + 1 finished submissions with no
\* dequeue in between are capacity accepted ones and one rejected one.
C6_QueueBounded ==
    /\ Len(taskQue_) <= taskQueMaxThreshHold_
    /\ \A t \in Tasks : Rejected(t) =>
          (~Queued(t) /\ \A i \in 1..Len(acceptLog) : acceptLog[i] # t)
    /\ (deqLog = <<>> /\
        Cardinality({t \in Tasks : hkind[t] # "none"}) = taskQueMaxThreshHold_ + 1) =>
          /\ Cardinality({t \in Tasks : Accepted(t)}) = taskQueMaxThreshHold_
          /\ Cardinality({t \in Tasks : Rejected(t)}) = 1

\* C6 witness: capacity + 1 submissions have returned while no worker has
\* dequeued; the queue is full and exactly one handle is a rejected one.
C6_Witness ==
    /\ deqLog = <<>>
    /\ Len(taskQue_) = taskQueMaxThreshHold_
    /\ Cardinality({t \in Tasks : Accepted(t)}) = taskQueMaxThreshHold_
    /\ Cardinality({t \in Tasks : Rejected(t)}) = 1

\* C7: the tasks are dequeued in the order in which they were accepted, the
\* queue holding the accepted tasks not yet dequeued in that order; with one
\* worker in fixed mode and one client thread the tasks finish in the order of
\* the submitTask calls.
C7_FifoOrder ==
    /\ IsPrefix(deqLog, acceptLog)
    /\ taskQue_ = SubSeq(acceptLog, Len(deqLog) + 1, Len(acceptLog))
    /\ \A w \in Ids : wpc[w] = "exec" =>
          \E i \in 1..Len(deqLog) : deqLog[i] = wtask[w]
    /\ (poolMode_ = MODE_FIXED /\ initThreadSize_ = 1 /\ numClients = 1) =>
          \A t1, t2 \in Tasks :
              (t1 < t2 /\ Accepted(t1) /\ Accepted(t2) /\ Done(t2)) => Done(t1)

\* C7 witness: a single-worker fixed pool fed by one client has dequeued and
\* finished two tasks.
C7_Witness ==
    /\ poolMode_ = MODE_FIXED
    /\ initThreadSize_ = 1
    /\ numClients = 1
    /\ Len(deqLog) >= 2
    /\ Done(deqLog[1])
    /\ Done(deqLog[2])

\* C8: a callable that raises does not bring the worker down; the fault ends
\* up in the handle of its task.
C8_FaultCaptured ==
    /\ crashed # "terminate"
    /\ \A t \in Tasks : (throws[t] /\ Done(t)) => cell[t] = Exception

\* C9: in cached mode the thread count never exceeds the ceiling.
C9_GrowthBound ==
    poolMode_ = MODE_CACHED => curThreadNum_ <= threadSizeThreshHold_

\* C9 witness: submissions have grown a cached pool up to its ceiling.
C9_Witness ==
    /\ poolMode_ = MODE_CACHED
    /\ phase = "started"
    /\ generateId_ > initThreadSize_
    /\ curThreadNum_ = threadSizeThreshHold_

\* C10: a cached pool that has grown above initThreadSize_ and is then left
\* alone (nothing queued or running, no submitTask call, no destructor)
\* eventually has curThreadNum_ = initThreadSize_ again.
GrownAndQuiet ==
    /\ poolMode_ = MODE_CACHED
    /\ phase = "started"
    /\ dtor = "none"
    /\ crashed = "none"
    /\ curThreadNum_ > initThreadSize_
    /\ Len(taskQue_) = 0
    /\ \A w \in Ids : wpc[w] \notin {"exec", "idleinc"}
    /\ \A p \in Producers : ppc[p] \notin {"waitfull", "woke", "timedout", "growing"}

C10_ElasticShrink ==
    GrownAndQuiet ~> (curThreadNum_ = initThreadSize_ \/ ~GrownAndQuiet)

\* C10 witness: a surplus worker was culled and the count is back at the
\* baseline while the pool is still running.
C10_Witness ==
    /\ poolMode_ = MODE_CACHED
    /\ dtor = "none"
    /\ generateId_ > initThreadSize_
    /\ curThreadNum_ = initThreadSize_
    /\ \E w \in Ids : wpc[w] = "exited"

\* C11: from the end of start() to the beginning of the destructor a cached
\* pool never has fewer than initThreadSize_ threads, however many idle
\* workers reach the idle threshold together.
C11_NeverBelowBaseline ==
    (poolMode_ = MODE_CACHED /\ phase = "started" /\ dtor = "none") =>
        /\ curThreadNum_ >= initThreadSize_
        /\ Cardinality(threadMap_) >= initThreadSize_

\* C11 witness: one surplus worker has retired, the count is at the baseline,
\* and another worker whose wait timed out with the same idle time is about
\* to make the culling test.
C11_Witness ==
    /\ poolMode_ = MODE_CACHED
    /\ phase = "started"
    /\ dtor = "none"
    /\ curThreadNum_ = initThreadSize_
    /\ \E w \in Ids : wpc[w] = "exited"
    /\ \E w \in Ids : wpc[w] = "timedout" /\ dur[w] >= THREAD_MAX_IDLE_TIME

\* C12: in fixed mode, from the end of start() to the beginning of the
\* destructor, the thread count and the registry stay at initThreadSize_: no
\* submission creates a thread and no worker retires.
C12_FixedCountConstant ==
    (poolMode_ = MODE_FIXED /\ phase = "started" /\ dtor = "none") =>
        /\ curThreadNum_ = initThreadSize_
        /\ Cardinality(threadMap_) = initThreadSize_
        /\ generateId_ = initThreadSize_
        /\ \A w \in threadMap_ : Live(w)

\* C12 witness: a fixed pool below its ceiling whose queue is longer than its
\* idle count (the state in which a cached pool would grow).
C12_Witness ==
    /\ poolMode_ = MODE_FIXED
    /\ phase = "started"
    /\ dtor = "none"
    /\ Len(taskQue_) > idleThreadNum_
    /\ curThreadNum_ < threadSizeThreshHold_
    /\ Len(deqLog) > 0

\* C13 as claimed: 0 <= idleThreadNum_ <= curThreadNum_ in every state, the
\* states between two counter updates included.
C13_IdleWithinCurrent ==
    0 <= idleThreadNum_ /\ idleThreadNum_ <= curThreadNum_

\* C13 as amended: 0 <= idleThreadNum_ <= curThreadNum_ in every state except
\* the one inside the culling critical section between curThreadNum_-- and
\* idleThreadNum_--, where idleThreadNum_ is at most curThreadNum_ + 1.
C13_IdleWithinCurrentOutsideCull ==
    /\ 0 <= idleThreadNum_
    /\ idleThreadNum_ <= curThreadNum_ + 1
    /\ (\A w \in Ids : wpc[w] # "culling") => idleThreadNum_ <= curThreadNum_

\* C13 witness: a culling worker has decremented curThreadNum_ and not yet
\* idleThreadNum_, every worker of the pool being idle.
C13_Witness ==
    \E w \in Ids : wpc[w] = "culling" /\ idleThreadNum_ = curThreadNum_ + 1

\* C14: a pool whose constructor arguments are not 0 < initThreadSize_ <=
\* threadSizeThreshHold_ and taskQueMaxThreshHold_ > 0 is never started and
\* never accepts a submission.
ValidArgs ==
    /\ 0 < initThreadSize_
    /\ initThreadSize_ <= threadSizeThreshHold_
    /\ 0 < taskQueMaxThreshHold_

C14_ConstructorValidates ==
    (phase # "constructed" \/ \E t \in Tasks : Accepted(t)) => ValidArgs

\* C15: a task is dequeued at most once, is run by at most one worker, and
\* its handle is posted to at most once; a task that was not accepted is never
\* dequeued.
C15_ExecutedAtMostOnce ==
    \A t \in Tasks :
        /\ Cardinality({i \in 1..Len(deqLog) : deqLog[i] = t}) <= 1
        /\ Cardinality({w \in Ids : wpc[w] \in {"exec", "idleinc"} /\ wtask[w] = t}) <= 1
        /\ posted[t] <= 1
        /\ (Accepted(t) /\ posted[t] > 0) => \E i \in 1..Len(deqLog) : deqLog[i] = t
        /\ ~Accepted(t) => \A i \in 1..Len(deqLog) : deqLog[i] # t

\* C15 witness: two workers went for the queue, one runs the second task, the
\* other found the queue empty and waits; the first task was posted once.
C15_Witness ==
    /\ Len(deqLog) = 2
    /\ posted[deqLog[1]] = 1
    /\ \E w1, w2 \in Ids :
          /\ w1 # w2
          /\ wpc[w1] = "exec"
          /\ wtask[w1] = deqLog[2]
          /\ wpc[w2] = "wait"

\* C16: a step that takes a task from the queue wakes every submitter that is
\* blocked for room, and a step that puts a task into the queue wakes every
\* worker that is blocked for work.
C16_DequeueWakesProducers ==
    [][/\ (Len(deqLog') > Len(deqLog)) =>
              \A p \in Producers : ppc[p] = "waitfull" => ppc'[p] = "woke"
       /\ (Len(acceptLog') > Len(acceptLog)) =>
              \A w \in Ids : wpc[w] = "wait" => wpc'[w] = "notified"]_vars

\* C17: no worker posts into a Result that its submitter has destroyed.
C17_HandleOutlivesPost ==
    /\ crashed # "dangling"
    /\ \A t \in Tasks : hlife[t] # "clobbered"

\* C18: a worker leaves threadFunc (shutdown exit or culling) only in a state
\* in which the queue is empty.
C18_ExitOnlyWhenQueueEmpty ==
    [][\A w \in Ids :
          (Live(w) /\ wpc[w] # "culling" /\ wpc'[w] \in {"culling", "exited"}) =>
              Len(taskQue_) = 0]_vars

\* C19: in a started pool that is not being destroyed every accepted task is
\* eventually run and its handle posted to.
C19_AcceptedTaskIsExecuted ==
    \A t \in Tasks :
        (Accepted(t) /\ dtor = "none") ~> (posted[t] > 0 \/ dtor # "none")

\* C20: an accepted submission creates a thread exactly when, after its
\* enqueue, the mode is cached, the queue is longer than the idle count and
\* the thread count is below the ceiling; it creates one thread, registered
\* and counted in curThreadNum_ and idleThreadNum_ before that thread can take
\* the lock; nothing else creates a thread once start() is over.
C20_GrowthIffCondition ==
    [][/\ (Len(acceptLog') > Len(acceptLog)) =>
             /\ (generateId_' # generateId_) <=>
                   /\ poolMode_ = MODE_CACHED
                   /\ Len(taskQue_') > idleThreadNum_
                   /\ curThreadNum_ < threadSizeThreshHold_
             /\ (generateId_' # generateId_) =>
                   /\ generateId_' = generateId_ + 1
                   /\ threadMap_' = threadMap_ \cup {generateId_}
                   /\ curThreadNum_' = curThreadNum_ + 1
                   /\ \E p \in Producers : ppc'[p] = "growing"
             /\ (generateId_' = generateId_) =>
                   UNCHANGED <<threadMap_, curThreadNum_, idleThreadNum_>>
       /\ (phase = "started" /\ Len(acceptLog') = Len(acceptLog)) =>
             generateId_' = generateId_
       /\ \A p \in Producers : (ppc[p] = "growing" /\ ppc'[p] # "growing") =>
             /\ idleThreadNum_' = idleThreadNum_ + 1
             /\ curThreadNum_' = curThreadNum_
       /\ (\E p \in Producers : ppc[p] = "growing") =>
             /\ wpc[generateId_ - 1] = "ready"
             /\ wpc'[generateId_ - 1] = "ready"]_vars

\* C20 witness: a submission has enqueued its task and registered a new
\* thread, which waits for the lock the submitter still holds.
C20_Witness ==
    /\ \E p \in Producers : ppc[p] = "growing"
    /\ generateId_ > initThreadSize_
    /\ (generateId_ - 1) \in threadMap_
    /\ wpc[generateId_ - 1] = "ready"

\* C21: start() launches every worker it registered, whatever identities
\* the static counter gave them: start() does not fail, the registry never
\* holds a key without a launched worker once start() has returned, and at
\* its return exactly initThreadSize_ registered workers are running.
C21_StartLaunchesRegistered ==
    [][/\ crashed' # "nullstart"
       /\ (phase' = "started") => (\A w \in threadMap_' : wpc'[w] # "none")
       /\ (phase # "started" /\ phase' = "started") =>
             Cardinality({w \in threadMap_' : Live(w)'}) = initThreadSize_]_vars

====
